---- MODULE Spec2Model ----
(***************************************************************************)
(* BlueBannerBot.  Each part of the repository is a state machine with its *)
(* own specification; the variables of the other parts stay at rest.       *)
(*   CrawlSpec, CrawlFairSpec : one crawl by scraper-universal.py or       *)
(*                              scraper.py                                 *)
(*   IngestSpec    : one or two runs of ingester-universal.py or           *)
(*                   ingest_to_pinecone.py                                 *)
(*   AskSpec       : one request to POST /ask of main.py                   *)
(*   DeleteSpec    : one run of remove_from_pinecone.py on some index      *)
(*   PipelineSpec  : an ingestion followed by remove_from_pinecone.py on   *)
(*                   an ingested directory                                 *)
(*   StartSpec     : the startup of main.py and of the ingestion scripts   *)
(*                                                                         *)
(* A string is a sequence of tokens; a token stands for a run of           *)
(* characters that no test of the code splits.  The substring, prefix and  *)
(* suffix tests of the code are the same tests on the token sequence.      *)
(*                                                                         *)
(* Not modelled: exceptions other than those the code catches around the   *)
(* fetch, the embedding request, the calls of a request to /ask and the    *)
(* delete call (a failing upsert, a failing file write), a missing input   *)
(* directory of ingester-universal.py, which the script treats as one      *)
(* without files, and what the SDK clients do inside a call.               *)
(***************************************************************************)
EXTENDS Integers, Sequences, FiniteSets, TLC

VARIABLES
    script,         \* crawl: which crawler script runs
    urls_to_visit,  \* crawl: the frontier (a set in scraper-universal.py, a deque in scraper.py)
    visited_urls,   \* crawl: set of URL strings
    current_url,    \* crawl: the URL popped by the running iteration
    page,           \* crawl: what the fetch of current_url returned
    cpc,            \* crawl: position in the while loop
    fetched,        \* crawl: fetched URL string -> number of fetches issued for it
    files,          \* crawl: URLs whose text was written to a file
    failed,         \* crawl: URLs whose fetch returned no page
    expected,       \* crawl: seed + qualifying links seen on fetched pages
    iscript,        \* ingest: which ingestion script runs
    dirs,           \* ingest: the directories to ingest, in order
    listing,        \* ingest: os.listdir of each directory: file name -> number of chunks
    run,            \* ingest: "first" or "second" run of the script on the same files
    ipc,            \* ingest: position in main()
    dir_i,          \* ingest: index in dirs of the directory being processed
    todo,           \* ingest: file names of that directory not yet iterated
    filename,       \* ingest: the file being processed
    chunks,         \* ingest: chunk_text(file_text)
    chunk_i,        \* ingest: the enumerate index i (0-based)
    vectors_to_upsert,  \* ingest: the batch being accumulated
    chunk_id_counter,   \* ingest: ingest_to_pinecone.py's id counter
    index,          \* ingest: the vector index, id -> stored text
    embed_calls,    \* ingest: chunk text -> embedding requests made in this run
    embed_failed,   \* ingest: chunk texts whose embedding request failed in this run
    produced,       \* ingest: records appended to a batch in this run
    upserted,       \* ingest: record -> number of upsert calls that carried it in this run
    upsert_sizes,   \* ingest: the sizes of the upsert calls of this run
    prev_produced,  \* ingest: the records of the first run, during the second
    apc,            \* ask: position in ask_question
    question,       \* ask: request.question
    history0,       \* ask: request.history as it arrived
    history,        \* ask: request.history
    calls,          \* ask: the calls issued so far, in order, each with its outcome
    query_results,  \* ask: the matches index.query returned
    context_string, \* ask: the context block
    messages,       \* ask: the messages passed to the final chat completion
    response,       \* ask: what the caller receives
    dpc,            \* delete: position in main() of remove_from_pinecone.py
    target_directory,   \* delete: TARGET_DIRECTORY
    target_exists,  \* delete: os.path.exists(TARGET_DIRECTORY)
    target_files,   \* delete: os.listdir(TARGET_DIRECTORY)
    target_filenames,   \* delete: the .txt names among them
    all_vector_ids, \* delete: the ids index.list returned
    ids_to_delete,  \* delete: the selected ids
    batch_i,        \* delete: the offset i of the batch loop
    delete_calls,   \* delete: the index.delete calls made, each with its outcome
    stored0,        \* delete: the ids the index held when the utility started
    program,        \* startup: the program that is started
    env,            \* startup: the configuration names that have a value
    input_exists,   \* startup: os.path.exists(INPUT_DIRECTORY)
    spc,            \* startup: position in the module-level code and in main()
    requests,       \* startup: the requests made to external services, in order
    lenient,        \* startup: the clients constructed from an absent key
    working         \* startup: the program serves requests or ingests files

crawlVars == <<script, urls_to_visit, visited_urls, current_url, page, cpc,
               fetched, files, failed, expected>>

ingestVars == <<iscript, dirs, listing, run, ipc, dir_i, todo, filename, chunks,
                chunk_i, vectors_to_upsert, chunk_id_counter, index, embed_calls,
                embed_failed, produced, upserted, upsert_sizes, prev_produced>>

askVars == <<apc, question, history0, history, calls, query_results,
             context_string, messages, response>>

deleteVars == <<dpc, target_directory, target_exists, target_files, target_filenames,
                all_vector_ids, ids_to_delete, batch_i, delete_calls, stored0>>

startVars == <<program, env, input_exists, spc, requests, lenient, working>>

vars == <<crawlVars, ingestVars, askVars, deleteVars, startVars>>

\* what the crawlers leave alone
notCrawl == <<ingestVars, askVars, deleteVars, startVars>>

\* what the ingestion scripts leave alone
notIngest == <<crawlVars, askVars, deleteVars, startVars>>

\* what a request to /ask leaves alone
notAsk == <<crawlVars, ingestVars, deleteVars, startVars>>

\* what the deletion utility leaves alone: everything but its own state and
\* the index
notDelete == <<crawlVars, askVars, startVars, iscript, dirs, listing, run, ipc, dir_i, todo,
               filename, chunks, chunk_i, vectors_to_upsert, chunk_id_counter,
               embed_calls, embed_failed, produced, upserted, upsert_sizes,
               prev_produced>>

\* what the startup of a program leaves alone
notStart == <<crawlVars, ingestVars, askVars, deleteVars>>

----------------------------------------------------------------------------
(* Bounds *)

\* most <a href> elements on one page
MaxLinks == 2

\* most chunks in the files of one ingestion, when the files are small
MaxChunks == 3

\* most turns in the history of a request
MaxHistory == 12

\* most matches in the modelled query results
MaxMatches == 2

\* most vectors in the index when the deletion utility starts on an index
\* that is not large
MaxStored == 3

----------------------------------------------------------------------------
(* Strings *)

Range(s) == {s[i] : i \in 1..Len(s)}

\* Python: tok in s
Contains(s, tok) == \E i \in 1..Len(s) : s[i] = tok

\* Python: s.startswith(p)
StartsWith(s, p) == Len(p) <= Len(s) /\ SubSeq(s, 1, Len(p)) = p

\* Python: s.endswith(tok), tok one token
EndsWith(s, tok) == Len(s) > 0 /\ s[Len(s)] = tok

\* Python: s.split('#')[0]
RECURSIVE SplitHash(_)
SplitHash(s) ==
    IF s = <<>> \/ Head(s) = "#" THEN <<>> ELSE <<Head(s)>> \o SplitHash(Tail(s))

----------------------------------------------------------------------------
(* URLs: urllib.parse results, and the absolute URLs a page links to *)

Url(host, path, query, fragment) ==
    [host |-> host, path |-> path, query |-> query, fragment |-> fragment]

\* ParseResult.geturl()
geturl(u) ==
    <<"https://", u.host>> \o u.path
        \o (IF u.query = <<>> THEN <<>> ELSE <<"?">> \o u.query)
        \o (IF u.fragment = <<>> THEN <<>> ELSE <<"#">> \o u.fragment)

\* parsed_absolute_url._replace(fragment="").geturl()
url_without_fragment(u) == geturl([u EXCEPT !.fragment = <<>>])

\* urljoin(current_url, href).split('#')[0]
full_url(u) == SplitHash(geturl(u))

\* scraper-universal.py, SITES_TO_SCRAPE[0]
allowed_domain == "docs.limelightvision.io"
base_url == Url(allowed_domain, <<"/docs", "/summary">>, <<>>, <<>>)
ExcludedU == {".zip", ".pdf", ".png", ".jpg"}

\* scraper.py, SITE_CONFIGS[TARGET_SITE]
wpilib_host == "docs.wpilib.org"
base_domain == <<"https://", wpilib_host, "/en/stable/">>
start_url == Url(wpilib_host, <<"/en/stable/", "intro.html">>, <<>>, <<>>)
ExcludedS == {".zip", ".pdf", ".jar"}

\* The absolute URLs that the pages of the limelight site may link to.
HrefsU ==
    { base_url,
      Url(allowed_domain, <<"/docs", "/a">>, <<>>, <<>>),
      Url(allowed_domain, <<"/docs", "/a">>, <<>>, <<"sec">>),
      Url(allowed_domain, <<"/docs", "/b">>, <<>>, <<>>),
      Url(allowed_domain, <<"/docs", "/manual", ".pdf">>, <<>>, <<>>),
      Url(allowed_domain, <<"/docs", "/viewer">>, <<"img=cal", ".png">>, <<>>),
      Url(allowed_domain, <<"/", "cdn-cgi/l/email-protection">>, <<>>, <<>>),
      Url("twitter.com", <<"/share">>, <<"url=", allowed_domain>>, <<>>),
      Url("limelightvision.io", <<"/">>, <<>>, <<>>) }

\* The absolute URLs that the pages of the wpilib site may link to.
HrefsS ==
    { start_url,
      Url(wpilib_host, <<"/en/stable/", "a.html">>, <<>>, <<>>),
      Url(wpilib_host, <<"/en/stable/", "a.html">>, <<>>, <<"sec">>),
      Url(wpilib_host, <<"/en/stable/", "b.html">>, <<>>, <<>>),
      Url(wpilib_host, <<"/en/stable/", "manual", ".pdf">>, <<>>, <<>>),
      Url(wpilib_host, <<"/en/stable/", "manual", ".pdf">>, <<"v=2">>, <<>>),
      Url(wpilib_host, <<"/en/latest/", "a.html">>, <<>>, <<>>),
      Url("github.com", <<"/wpilibsuite">>, <<>>, <<>>) }

Hrefs(s) == IF s = "universal" THEN HrefsU ELSE HrefsS

\* the link sets one page can carry
LinkSets(s) == {L \in SUBSET Hrefs(s) : Cardinality(L) <= MaxLinks}

----------------------------------------------------------------------------
(* What a fetch returns *)

NoPage == [outcome |-> "none", soup |-> FALSE, content |-> FALSE, links |-> {}]

OutcomesU == {"status_not_200", "request_exception", "no_text", "ok"}
OutcomesS == {"selenium_error", "no_text", "ok"}
FetchFailures == {"status_not_200", "request_exception", "selenium_error"}

\* scrape_page without the status check of line 28 and the except of line 52
scrape_page_U_unchecked(outcome, links) ==
    [outcome |-> outcome, soup |-> TRUE, content |-> (outcome = "ok"), links |-> links]

\* scraper-universal.py scrape_page: (content, soup), with the page's <a href> targets
scrape_page_U(outcome, links) ==
    IF outcome \in {"status_not_200", "request_exception"}
    THEN [outcome |-> outcome, soup |-> FALSE, content |-> FALSE, links |-> {}]
    ELSE [outcome |-> outcome, soup |-> TRUE, content |-> (outcome = "ok"), links |-> links]

\* scraper.py get_page_source_with_selenium then scrape_page: (scraped_text, soup)
scrape_page_S(outcome, links) ==
    IF outcome = "selenium_error"
    THEN [outcome |-> outcome, soup |-> FALSE, content |-> FALSE, links |-> {}]
    ELSE [outcome |-> outcome, soup |-> TRUE, content |-> (outcome = "ok"), links |-> links]

----------------------------------------------------------------------------
(* The link filters *)

\* scraper-universal.py lines 98-104: is this link added to urls_to_visit
ShouldEnqueueU(s, vis, pend) ==
    /\ ~Contains(s, "cdn-cgi/l/email-protection")
    /\ Contains(s, allowed_domain)
    /\ s \notin vis
    /\ s \notin pend
    /\ ~\E ext \in ExcludedU : Contains(s, ext)

\* scraper-universal.py lines 92-106: the for loop over soup.find_all('a', href=True)
RECURSIVE EnqueueU(_, _, _)
EnqueueU(links, pend, vis) ==
    IF links = {} THEN pend
    ELSE LET l == CHOOSE x \in links : TRUE
             s == url_without_fragment(l)
         IN  EnqueueU(links \ {l},
                      IF ShouldEnqueueU(s, vis, pend) THEN pend \cup {s} ELSE pend,
                      vis)

\* scraper.py find_doc_links
find_doc_links(links) ==
    {full_url(l) : l \in {x \in links :
        /\ StartsWith(full_url(x), base_domain)
        /\ ~\E ext \in ExcludedS : EndsWith(full_url(x), ext)}}

\* scraper.py line 134: is a link of new_links appended to the deque
ShouldAppendS(link, vis) == link \notin vis

\* the pop without the test of line 116
SkipVisited_never(u, vis) == FALSE

\* scraper.py lines 116-117: is a popped URL skipped
SkipVisited(u, vis) == u \in vis

\* one more fetch of URL u: requests.get (scraper-universal.py line 27),
\* driver.get (scraper.py line 51)
Fetch(f, u) ==
    [x \in DOMAIN f \cup {u} |-> (IF x \in DOMAIN f THEN f[x] ELSE 0) + (IF x = u THEN 1 ELSE 0)]

\* the orders in which a Python set can be iterated
Orderings(S) == {q \in [1..Cardinality(S) -> S] : Range(q) = S}

\* the frontier as a set of URL strings
Pending == IF script = "universal" THEN urls_to_visit ELSE Range(urls_to_visit)

\* spec 4.2: the link's domain is the allowed one (for scraper.py, whose
\* configuration names a URL prefix, the URL lies under that prefix)
InDomain(l) ==
    IF script = "universal" THEN l.host = allowed_domain
    ELSE StartsWith(geturl(l), base_domain)

\* spec 4.2: the link's path ends in an excluded extension
PathExcluded(l) ==
    Len(l.path) > 0 /\
    l.path[Len(l.path)] \in (IF script = "universal" THEN ExcludedU ELSE ExcludedS)

\* a Cloudflare e-mail obfuscation link, which is no page
EmailProtection(l) == Contains(l.path, "cdn-cgi/l/email-protection")

\* spec 4.2: a link the crawl is to follow
Qualifies(l) == InDomain(l) /\ ~PathExcluded(l) /\ ~EmailProtection(l)

\* the fetched page is one whose links the loop collects
LinksCollected == page.soup /\ (script = "selenium" => page.content)

\* the URL string the crawler keeps for a link
Stripped(l) == IF script = "universal" THEN url_without_fragment(l) ELSE full_url(l)

----------------------------------------------------------------------------
(* The crawl loops *)

CrawlInit ==
    /\ script \in {"universal", "selenium"}
    /\ urls_to_visit = (IF script = "universal" THEN {geturl(base_url)}
                        ELSE <<geturl(start_url)>>)
    /\ visited_urls = {}
    /\ current_url = <<>>
    /\ page = NoPage
    /\ cpc = "loop"
    /\ fetched = <<>>
    /\ files = {}
    /\ failed = {}
    /\ expected = {IF script = "universal" THEN geturl(base_url) ELSE geturl(start_url)}

\* scraper-universal.py lines 72-78
U_Pop ==
    /\ UNCHANGED notCrawl
    /\ script = "universal" /\ cpc = "loop" /\ urls_to_visit # {}
    /\ \E u \in urls_to_visit :
        /\ urls_to_visit' = urls_to_visit \ {u}
        /\ IF u \in visited_urls
           THEN UNCHANGED <<visited_urls, current_url, cpc>>
           ELSE /\ visited_urls' = visited_urls \cup {u}
                /\ current_url' = u
                /\ cpc' = "fetch"
    /\ UNCHANGED <<script, page, fetched, files, failed, expected>>

\* scraper-universal.py line 80
U_Fetch ==
    /\ UNCHANGED notCrawl
    /\ script = "universal" /\ cpc = "fetch"
    /\ \E outcome \in OutcomesU, links \in LinkSets(script) :
        page' = scrape_page_U(outcome, links)
    /\ fetched' = Fetch(fetched, current_url)
    /\ failed' = IF page'.outcome \in FetchFailures THEN failed \cup {current_url} ELSE failed
    /\ cpc' = "process"
    /\ UNCHANGED <<script, urls_to_visit, visited_urls, current_url, files, expected>>

\* scraper-universal.py lines 82-108
U_Process ==
    /\ UNCHANGED notCrawl
    /\ script = "universal" /\ cpc = "process"
    /\ files' = IF page.soup /\ page.content THEN files \cup {current_url} ELSE files
    /\ urls_to_visit' = IF page.soup
                        THEN EnqueueU(page.links, urls_to_visit, visited_urls)
                        ELSE urls_to_visit
    /\ expected' = IF LinksCollected
                   THEN expected \cup {Stripped(l) : l \in {x \in page.links : Qualifies(x)}}
                   ELSE expected
    /\ page' = NoPage
    /\ cpc' = "loop"
    /\ UNCHANGED <<script, visited_urls, current_url, fetched, failed>>

\* scraper-universal.py lines 72, 110
U_Finish ==
    /\ UNCHANGED notCrawl
    /\ script = "universal" /\ cpc = "loop" /\ urls_to_visit = {}
    /\ cpc' = "done"
    /\ UNCHANGED <<script, urls_to_visit, visited_urls, current_url, page,
                   fetched, files, failed, expected>>

\* scraper.py lines 114-120
S_Pop ==
    /\ UNCHANGED notCrawl
    /\ script = "selenium" /\ cpc = "loop" /\ urls_to_visit # <<>>
    /\ urls_to_visit' = Tail(urls_to_visit)
    /\ IF SkipVisited(Head(urls_to_visit), visited_urls)
       THEN UNCHANGED <<visited_urls, current_url, cpc>>
       ELSE /\ visited_urls' = visited_urls \cup {Head(urls_to_visit)}
            /\ current_url' = Head(urls_to_visit)
            /\ cpc' = "fetch"
    /\ UNCHANGED <<script, page, fetched, files, failed, expected>>

\* scraper.py lines 122-123
S_Fetch ==
    /\ UNCHANGED notCrawl
    /\ script = "selenium" /\ cpc = "fetch"
    /\ \E outcome \in OutcomesS, links \in LinkSets(script) :
        page' = scrape_page_S(outcome, links)
    /\ fetched' = Fetch(fetched, current_url)
    /\ failed' = IF page'.outcome \in FetchFailures THEN failed \cup {current_url} ELSE failed
    /\ cpc' = "process"
    /\ UNCHANGED <<script, urls_to_visit, visited_urls, current_url, files, expected>>

\* scraper.py lines 125-135
S_Process ==
    /\ UNCHANGED notCrawl
    /\ script = "selenium" /\ cpc = "process"
    /\ files' = IF page.content /\ page.soup THEN files \cup {current_url} ELSE files
    /\ IF page.content /\ page.soup
       THEN \E q \in Orderings({k \in find_doc_links(page.links) :
                                   ShouldAppendS(k, visited_urls)}) :
                urls_to_visit' = urls_to_visit \o q
       ELSE UNCHANGED urls_to_visit
    /\ expected' = IF LinksCollected
                   THEN expected \cup {Stripped(l) : l \in {x \in page.links : Qualifies(x)}}
                   ELSE expected
    /\ page' = NoPage
    /\ cpc' = "loop"
    /\ UNCHANGED <<script, visited_urls, current_url, fetched, failed>>

\* scraper.py lines 114, 137
S_Finish ==
    /\ UNCHANGED notCrawl
    /\ script = "selenium" /\ cpc = "loop" /\ urls_to_visit = <<>>
    /\ cpc' = "done"
    /\ UNCHANGED <<script, urls_to_visit, visited_urls, current_url, page,
                   fetched, files, failed, expected>>

CrawlNext ==
    \/ U_Pop \/ U_Fetch \/ U_Process \/ U_Finish
    \/ S_Pop \/ S_Fetch \/ S_Process \/ S_Finish



\* no crawl is running
CrawlIdle ==
    /\ script = "none" /\ urls_to_visit = {} /\ visited_urls = {}
    /\ current_url = <<>> /\ page = NoPage /\ cpc = "idle"
    /\ fetched = <<>> /\ files = {} /\ failed = {} /\ expected = {}

----------------------------------------------------------------------------
(* Ingestion: ingester-universal.py and ingest_to_pinecone.py *)

\* ingester-universal.py line 89
batch_size == 100

\* ingest_to_pinecone.py line 39
INPUT_DIRECTORY == <<"scraped_data_javadoc">>

\* directory names that DIRECTORIES_TO_INGEST may list
DirNames == {<<"docs">>, <<"docs", "-", "v2">>}

\* DIRECTORIES_TO_INGEST: one or two distinct directories
DirLists == {<<a>> : a \in DirNames} \cup
            {<<a, b>> : <<a, b>> \in {x \in DirNames \X DirNames : x[1] # x[2]}}

\* the text files of a directory, and a file that is no text file
TxtNames == {<<"intro", ".txt">>, <<"v2", "-", "intro", ".txt">>}
FileNames == TxtNames \cup {<<"notes", ".md">>}

\* number of chunks of every file of every directory (0: the file is empty)
RECURSIVE SumOver(_, _)
SumOver(f, S) ==
    IF S = {} THEN 0
    ELSE LET x == CHOOSE y \in S : TRUE IN f[x] + SumOver(f, S \ {x})

TotalChunks(ls) ==
    SumOver([k \in DOMAIN ls |-> SumOver(ls[k], TxtNames)], DOMAIN ls)

\* directories of small files: MaxChunks chunks at most in all
SmallListings(ds) ==
    {ls \in [1..Len(ds) -> [FileNames -> 0..MaxChunks]] :
        /\ TotalChunks(ls) <= MaxChunks
        /\ \A k \in 1..Len(ds) : ls[k][<<"notes", ".md">>] = 1}

\* one directory with one file of a full batch, or of one chunk more
BigListings ==
    {[k \in {1} |-> [f \in {<<"intro", ".txt">>} |-> n]] : n \in {batch_size, batch_size + 1}}

\* the run ingests a file of a full batch or more
IsBig == \E k \in DOMAIN listing : \E f \in DOMAIN listing[k] : listing[k][f] >= batch_size

\* chunk_text(file_text): the chunks of a file, each a text of its own
chunk_text(d, f, n) == [k \in 1..n |-> <<d, f, k - 1>>]

\* ingester-universal.py line 94: f"{input_directory}-{filename}-{i}"
vector_id_U(d, f, i) == d \o <<"-">> \o f \o <<"-">> \o <<i>>

\* ingest_to_pinecone.py line 130: f"{filename}-{chunk_id_counter}"
vector_id_P(f, c) == f \o <<"-">> \o <<c>>

\* the flush test without its last-chunk clause
ShouldFlush_full_only(vs, i, n) == Len(vs) >= batch_size

\* the append without the test of the embedding
Accumulate_always(vs, rec, ok) == Append(vs, rec)

\* ingester-universal.py lines 93-99, ingest_to_pinecone.py lines 128-138:
\* if embedding: vectors_to_upsert.append(...)
Accumulate(vs, rec, ok) == IF ok THEN Append(vs, rec) ELSE vs

\* ingester-universal.py line 102: is the batch upserted after chunk i
ShouldFlush(vs, i, n) == Len(vs) >= batch_size \/ (i = n - 1 /\ vs # <<>>)

\* index.upsert(vectors=vs): insert or overwrite by id; of two records of vs
\* with one id the later stays
Upsert(ix, vs) ==
    [k \in DOMAIN ix \cup {vs[j].id : j \in 1..Len(vs)} |->
        IF \E j \in 1..Len(vs) : vs[j].id = k
        THEN vs[CHOOSE j \in 1..Len(vs) :
                  /\ vs[j].id = k
                  /\ \A m \in (j + 1)..Len(vs) : vs[m].id # k].text
        ELSE ix[k]]

\* the bookkeeping of one index.upsert call
UpsertCall(vs) ==
    /\ index' = Upsert(index, vs)
    /\ upserted' = [r \in DOMAIN upserted \cup Range(vs) |->
                      (IF r \in DOMAIN upserted THEN upserted[r] ELSE 0)
                      + Cardinality({k \in 1..Len(vs) : vs[k] = r})]
    /\ upsert_sizes' = upsert_sizes \cup {Len(vs)}

NoUpsert == UNCHANGED <<index, upserted, upsert_sizes>>

\* the bookkeeping of one get_embedding call on text t
EmbedCall(t, ok) ==
    /\ embed_calls' = [x \in DOMAIN embed_calls \cup {t} |->
                         (IF x \in DOMAIN embed_calls THEN embed_calls[x] ELSE 0)
                         + (IF x = t THEN 1 ELSE 0)]
    /\ embed_failed' = IF ok THEN embed_failed ELSE embed_failed \cup {t}

\* the chunks (by index) of a file of a full batch or more whose embedding
\* request may fail: the first, those around the batch boundary, the last
BigFailPoints == {0, batch_size - 2, batch_size - 1, batch_size}

\* get_embedding returns a vector (TRUE) or None (FALSE)
EmbedOutcomes ==
    IF IsBig /\ chunk_i \notin BigFailPoints THEN {TRUE} ELSE BOOLEAN

IngestIdle ==
    /\ iscript = "none" /\ dirs = <<>> /\ listing = <<>> /\ run = "none"
    /\ ipc = "idle" /\ dir_i = 0 /\ todo = {} /\ filename = <<>> /\ chunks = <<>>
    /\ chunk_i = 0 /\ vectors_to_upsert = <<>> /\ chunk_id_counter = 0
    /\ index = <<>> /\ embed_calls = <<>> /\ embed_failed = {} /\ produced = {}
    /\ upserted = <<>> /\ upsert_sizes = {} /\ prev_produced = {}

IngestInit ==
    /\ iscript \in {"universal", "pinecone"}
    /\ dirs \in (IF iscript = "universal" THEN DirLists ELSE {<<INPUT_DIRECTORY>>})
    /\ listing \in (SmallListings(dirs) \cup (IF Len(dirs) = 1 THEN BigListings ELSE {}))
    /\ run = "first"
    /\ ipc = "files"
    /\ dir_i = 1
    /\ todo = DOMAIN listing[1]
    /\ filename = <<>>
    /\ chunks = <<>>
    /\ chunk_i = 0
    /\ vectors_to_upsert = <<>>
    /\ chunk_id_counter = 0
    /\ index = <<>>
    /\ embed_calls = <<>>
    /\ embed_failed = {}
    /\ produced = {}
    /\ upserted = <<>>
    /\ upsert_sizes = {}
    /\ prev_produced = {}

\* ingester-universal.py lines 73-90, ingest_to_pinecone.py lines 105-123:
\* the next file of os.listdir; a file that is no .txt file or is empty is skipped
StartFile ==
    /\ UNCHANGED notIngest
    /\ ipc = "files" /\ todo # {}
    /\ \E f \in todo :
        /\ todo' = todo \ {f}
        /\ IF EndsWith(f, ".txt") /\ listing[dir_i][f] > 0
           THEN /\ filename' = f
                /\ chunks' = chunk_text(dirs[dir_i], f, listing[dir_i][f])
                /\ chunk_i' = 0
                /\ vectors_to_upsert' = <<>>
                /\ chunk_id_counter' = 0
                /\ ipc' = "chunk"
           ELSE UNCHANGED <<filename, chunks, chunk_i, vectors_to_upsert,
                            chunk_id_counter, ipc>>
    /\ UNCHANGED <<iscript, dirs, listing, run, dir_i, index, embed_calls,
                   embed_failed, produced, upserted, upsert_sizes, prev_produced>>

\* ingester-universal.py lines 91-106: one iteration of the loop over the chunks
U_Chunk ==
    /\ UNCHANGED notIngest
    /\ iscript = "universal" /\ ipc = "chunk"
    /\ \E ok \in EmbedOutcomes :
        LET text == chunks[chunk_i + 1]
            rec == [id |-> vector_id_U(dirs[dir_i], filename, chunk_i), text |-> text]
            vs == Accumulate(vectors_to_upsert, rec, ok)
        IN  /\ EmbedCall(text, ok)
            /\ produced' = IF ok THEN produced \cup {rec} ELSE produced
            /\ IF ShouldFlush(vs, chunk_i, Len(chunks))
               THEN UpsertCall(vs) /\ vectors_to_upsert' = <<>>
               ELSE NoUpsert /\ vectors_to_upsert' = vs
    /\ chunk_i' = chunk_i + 1
    /\ ipc' = IF chunk_i + 1 = Len(chunks) THEN "files" ELSE "chunk"
    /\ UNCHANGED <<iscript, dirs, listing, run, dir_i, todo, filename, chunks,
                   chunk_id_counter, prev_produced>>

\* ingest_to_pinecone.py lines 124-138: one iteration of the loop over the chunks
P_Chunk ==
    /\ UNCHANGED notIngest
    /\ iscript = "pinecone" /\ ipc = "chunk"
    /\ \E ok \in EmbedOutcomes :
        LET text == chunks[chunk_i + 1]
            rec == [id |-> vector_id_P(filename, chunk_id_counter), text |-> text]
        IN  /\ EmbedCall(text, ok)
            /\ produced' = IF ok THEN produced \cup {rec} ELSE produced
            /\ vectors_to_upsert' = Accumulate(vectors_to_upsert, rec, ok)
            /\ chunk_id_counter' = IF ok THEN chunk_id_counter + 1 ELSE chunk_id_counter
    /\ chunk_i' = chunk_i + 1
    /\ ipc' = IF chunk_i + 1 = Len(chunks) THEN "flush" ELSE "chunk"
    /\ NoUpsert
    /\ UNCHANGED <<iscript, dirs, listing, run, dir_i, todo, filename, chunks,
                   prev_produced>>

\* ingest_to_pinecone.py lines 140-144: the upsert after the loop
P_Flush ==
    /\ UNCHANGED notIngest
    /\ iscript = "pinecone" /\ ipc = "flush"
    /\ IF vectors_to_upsert # <<>> THEN UpsertCall(vectors_to_upsert) ELSE NoUpsert
    /\ ipc' = "files"
    /\ UNCHANGED <<iscript, dirs, listing, run, dir_i, todo, filename, chunks, chunk_i,
                   vectors_to_upsert, chunk_id_counter, embed_calls, embed_failed,
                   produced, prev_produced>>

\* ingester-universal.py lines 63, 108; ingest_to_pinecone.py lines 105, 149:
\* the listing is exhausted: the next directory, or the end of main()
EndDir ==
    /\ UNCHANGED notIngest
    /\ ipc = "files" /\ todo = {}
    /\ IF dir_i < Len(dirs)
       THEN /\ dir_i' = dir_i + 1
            /\ todo' = DOMAIN listing[dir_i + 1]
            /\ ipc' = "files"
       ELSE /\ ipc' = "done"
            /\ UNCHANGED <<dir_i, todo>>
    /\ UNCHANGED <<iscript, dirs, listing, run, filename, chunks, chunk_i,
                   vectors_to_upsert, chunk_id_counter, index, embed_calls,
                   embed_failed, produced, upserted, upsert_sizes, prev_produced>>

\* the script is run again on the same directories and the same index
Rerun ==
    /\ UNCHANGED notIngest
    /\ ipc = "done" /\ run = "first" /\ ~IsBig
    /\ run' = "second"
    /\ prev_produced' = produced
    /\ ipc' = "files"
    /\ dir_i' = 1
    /\ todo' = DOMAIN listing[1]
    /\ filename' = <<>>
    /\ chunks' = <<>>
    /\ chunk_i' = 0
    /\ vectors_to_upsert' = <<>>
    /\ chunk_id_counter' = 0
    /\ embed_calls' = <<>>
    /\ embed_failed' = {}
    /\ produced' = {}
    /\ upserted' = <<>>
    /\ upsert_sizes' = {}
    /\ UNCHANGED <<iscript, dirs, listing, index>>

IngestNext == StartFile \/ U_Chunk \/ P_Chunk \/ P_Flush \/ EndDir \/ Rerun

----------------------------------------------------------------------------
(* The query service: main.py, POST /ask *)

\* main.py line 124
history_threshold == 10

\* main.py line 133
last_few == 4

\* main.py line 154
top_k == 5

\* main.py line 166
system_prompt == <<"You are a helpful robotics competition technical assistant">>

\* main.py line 163
no_documents == <<"No relevant documents found.">>

\* main.py lines 110 and 192
generic_detail == <<"An internal server error occurred.">>

\* a turn of the conversation, a dict with the keys role and content
Turn(role, content) == [role |-> role, content |-> content]

\* the histories a request can carry: turn k holds the text k, the roles
\* alternate, starting with either
Histories ==
    {[k \in 1..n |-> Turn(IF (k + first) % 2 = 0 THEN "user" ELSE "assistant", <<k>>)] :
        n \in 0..MaxHistory, first \in 0..1}

Questions == {<<"What is a motor controller?">>}

\* the stored texts a match can carry in metadata.text
MatchTexts == {<<>>, <<"A motor controller regulates power to a motor.">>}

Min(a, b) == IF a < b THEN a ELSE b

\* what index.query(top_k=5) can return: at most top_k matches
QueryResults ==
    UNION {[1..n -> MatchTexts] : n \in 0..Min(MaxMatches, top_k)}

\* sep.join(parts)
RECURSIVE Join(_, _)
Join(parts, sep) ==
    IF parts = <<>> THEN <<>>
    ELSE IF Len(parts) = 1 THEN parts[1]
    ELSE parts[1] \o sep \o Join(Tail(parts), sep)

\* s[-n:]
LastN(s, n) == IF Len(s) <= n THEN s ELSE SubSeq(s, Len(s) - n + 1, Len(s))

\* main.py lines 85-100: the prompt of the summarization call
summary_prompt(h) ==
    <<"Please provide a concise summary", "Conversation:">>
        \o Join([k \in 1..Len(h) |-> <<h[k].role, ": ">> \o h[k].content], <<"\n">>)

\* the text the chat model returns for a summarization, after strip()
summary_text == <<"summary">>

\* a call issued by the handler and whether it returned (ok) or raised
Call(api, arg, ok) == [api |-> api, arg |-> arg, ok |-> ok]

\* main.py lines 108-110 and 190-192: the status and detail of the HTTPException
HTTPException(status_code, detail) == [status_code |-> status_code, detail |-> detail]

\* main.py lines 76-110: what summarize_history returns or raises
summarize_history(h, ok) ==
    IF ok THEN [raised |-> FALSE, summary |-> summary_text]
    ELSE [raised |-> TRUE, exc |-> HTTPException(500, generic_detail)]

\* an except clause that lets the exception through as it was raised
ask_except_passthrough(exc) ==
    IF "status_code" \in DOMAIN exc THEN exc ELSE HTTPException(500, exc.message)

\* main.py lines 190-192: except Exception catches whatever was raised in the
\* try block, the HTTPException of summarize_history included
ask_except(exc) == HTTPException(500, generic_detail)

\* the exception a failing SDK call raises
SdkError(api) == [message |-> <<api, " failed">>]

\* main.py lines 132-134
Compacted(h, summary) ==
    <<Turn("system", <<"Summary of conversation so far: ">> \o summary)>> \o LastN(h, last_few)

\* compaction whatever the length of the history
NeedsSummary_always(h) == TRUE

\* main.py line 124
NeedsSummary(h) == Len(h) > history_threshold

\* context whatever the matches
BuildContext_joined(matches) == Join(matches, <<"\n---\n">>)

\* main.py lines 158-163
BuildContext(matches) ==
    LET joined == Join(matches, <<"\n---\n">>)
    IN IF joined = <<>> THEN no_documents ELSE joined

\* messages with the history ahead of the context
BuildMessages_history_first(ctx, h, q) ==
    <<Turn("system", system_prompt)>> \o h
        \o <<Turn("system", <<"Retrieved Context:\n">> \o ctx)>>
        \o <<Turn("user", q)>>

\* main.py lines 173-176
BuildMessages(ctx, h, q) ==
    <<Turn("system", system_prompt)>>
        \o <<Turn("system", <<"Retrieved Context:\n">> \o ctx)>>
        \o h
        \o <<Turn("user", q)>>

NoResponse == [status_code |-> 0]

AskIdle ==
    /\ apc = "idle" /\ question = <<>> /\ history0 = <<>> /\ history = <<>>
    /\ calls = <<>> /\ query_results = <<>> /\ context_string = <<>>
    /\ messages = <<>> /\ response = NoResponse

\* a request arrives at POST /ask
AskInit ==
    /\ apc = "compact"
    /\ question \in Questions
    /\ history0 \in Histories
    /\ history = history0
    /\ calls = <<>>
    /\ query_results = <<>>
    /\ context_string = <<>>
    /\ messages = <<>>
    /\ response = NoResponse

\* a handler that goes on with the failed step after the exception
Raise_retry(exc) ==
    /\ response' = ask_except(exc)
    /\ apc' = IF Len(calls) < 6 THEN apc ELSE "done"

\* main.py lines 190-192: the handler ends with the HTTPException
Raise(exc) ==
    /\ response' = ask_except(exc)
    /\ apc' = "done"

\* main.py lines 124-135
A_Compact ==
    /\ UNCHANGED notAsk
    /\ apc = "compact"
    /\ IF NeedsSummary(history)
       THEN \E ok \in BOOLEAN :
            LET r == summarize_history(history, ok) IN
            /\ calls' = Append(calls, Call("chat_summary", <<Turn("user", summary_prompt(history))>>, ok))
            /\ IF r.raised
               THEN Raise(r.exc) /\ UNCHANGED history
               ELSE /\ history' = Compacted(history, r.summary)
                    /\ apc' = "embed"
                    /\ UNCHANGED response
       ELSE /\ apc' = "embed"
            /\ UNCHANGED <<history, calls, response>>
    /\ UNCHANGED <<question, history0, query_results, context_string, messages>>

\* main.py lines 140-143
A_Embed ==
    /\ UNCHANGED notAsk
    /\ apc = "embed"
    /\ \E ok \in BOOLEAN :
        /\ calls' = Append(calls, Call("embeddings", question, ok))
        /\ IF ok THEN apc' = "sparse" /\ UNCHANGED response
                 ELSE Raise(SdkError("embeddings"))
    /\ UNCHANGED <<question, history0, history, query_results, context_string, messages>>

\* main.py line 147: the sparse encoding is computed in the process
A_Sparse ==
    /\ UNCHANGED notAsk
    /\ apc = "sparse"
    /\ \E ok \in BOOLEAN :
        /\ calls' = Append(calls, Call("encode_queries", question, ok))
        /\ IF ok THEN apc' = "query" /\ UNCHANGED response
                 ELSE Raise(SdkError("encode_queries"))
    /\ UNCHANGED <<question, history0, history, query_results, context_string, messages>>

\* main.py lines 151-163
A_Query ==
    /\ UNCHANGED notAsk
    /\ apc = "query"
    /\ \E ok \in BOOLEAN :
        /\ calls' = Append(calls, Call("index_query", question, ok))
        /\ IF ok
           THEN \E matches \in QueryResults :
                /\ query_results' = matches
                /\ context_string' = BuildContext(matches)
                /\ apc' = "complete"
                /\ UNCHANGED response
           ELSE Raise(SdkError("index_query")) /\ UNCHANGED <<query_results, context_string>>
    /\ UNCHANGED <<question, history0, history, messages>>

\* main.py lines 166-188
A_Complete ==
    /\ UNCHANGED notAsk
    /\ apc = "complete"
    /\ messages' = BuildMessages(context_string, history, question)
    /\ \E ok \in BOOLEAN :
        /\ calls' = Append(calls, Call("chat_answer", messages', ok))
        /\ IF ok THEN /\ response' = [status_code |-> 200, answer |-> <<"final_answer">>]
                      /\ apc' = "done"
                 ELSE Raise(SdkError("chat_answer"))
    /\ UNCHANGED <<question, history0, history, query_results, context_string>>

AskNext == A_Compact \/ A_Embed \/ A_Sparse \/ A_Query \/ A_Complete

----------------------------------------------------------------------------
(* The deletion utility: remove_from_pinecone.py *)

\* remove_from_pinecone.py line 71
delete_batch_size == 1000

\* remove_from_pinecone.py line 26
TARGET_DIRECTORY == <<"scraped_data_javadoc">>

\* the files a target directory can hold: those of the ingestion, and a text
\* file whose name starts with the name of another one
TargetFileNames == FileNames \cup {<<"intro", ".txt", ".bak", ".txt">>}

\* a record of the index: its id and its stored text
Stored(id, d, f, i) == [id |-> id, text |-> <<d, f, i>>]

\* the records a small index can hold: written by ingest_to_pinecone.py or by
\* ingester-universal.py from the files above
StoredCandidates ==
    {Stored(vector_id_P(f, c), TARGET_DIRECTORY, f, c) :
        f \in {g \in TargetFileNames : EndsWith(g, ".txt")}, c \in 0..1}
    \cup {Stored(vector_id_U(d, <<"intro", ".txt">>, 0), d, <<"intro", ".txt">>, 0) :
        d \in DirNames \cup {TARGET_DIRECTORY}}

\* the index as a function from id to stored text
IndexOf(recs) ==
    [k \in {r.id : r \in recs} |-> (CHOOSE r \in recs : r.id = k).text]

SmallIndexes == {IndexOf(R) : R \in {Q \in SUBSET StoredCandidates : Cardinality(Q) <= MaxStored}}

\* the ids of a large index, more than one batch of ids of one file, in the
\* order index.list returns them
BigIdSeq == [k \in 1..(delete_batch_size + 1) |-> vector_id_P(<<"intro", ".txt">>, k - 1)]

BigIndex == [k \in Range(BigIdSeq) |-> <<TARGET_DIRECTORY, <<"intro", ".txt">>, k[Len(k)]>>]

\* remove_from_pinecone.py lines 52-53: index.list(prefix='') pages through the
\* ids of the index, each id once, in an order of the service
ListOrders(ix) ==
    IF DOMAIN ix = Range(BigIdSeq) THEN {BigIdSeq} ELSE Orderings(DOMAIN ix)

\* a test of the id against the file name anywhere in the id
IdMatches_anywhere(vector_id, names) ==
    \E f \in names : \E k \in 0..Len(vector_id) :
        k + Len(f) <= Len(vector_id) /\ SubSeq(vector_id, k + 1, k + Len(f)) = f

\* remove_from_pinecone.py lines 59-62: the inner loop appends the id at the
\* first file name it starts with and breaks
IdMatches(vector_id, names) == \E f \in names : StartsWith(vector_id, f)

\* remove_from_pinecone.py lines 57-62
SelectIds(ids, names) == SelectSeq(ids, LAMBDA vector_id : IdMatches(vector_id, names))

\* remove_from_pinecone.py line 41
TxtFiles(fs) == {f \in fs : EndsWith(f, ".txt")}

\* index.delete(ids=batch)
Delete(ix, batch) == [k \in DOMAIN ix \ Range(batch) |-> ix[k]]

DeleteIdle ==
    /\ dpc = "idle" /\ target_directory = <<>> /\ target_exists = FALSE
    /\ target_files = {} /\ target_filenames = {} /\ all_vector_ids = <<>>
    /\ ids_to_delete = <<>> /\ batch_i = 0 /\ delete_calls = <<>> /\ stored0 = {}

\* no ingestion script is running; the index is left out
IngestStopped ==
    /\ iscript = "none" /\ dirs = <<>> /\ listing = <<>> /\ run = "none"
    /\ ipc = "idle" /\ dir_i = 0 /\ todo = {} /\ filename = <<>> /\ chunks = <<>>
    /\ chunk_i = 0 /\ vectors_to_upsert = <<>> /\ chunk_id_counter = 0
    /\ embed_calls = <<>> /\ embed_failed = {} /\ produced = {}
    /\ upserted = <<>> /\ upsert_sizes = {} /\ prev_produced = {}

\* the utility is started on a directory and an index
DeleteInit ==
    /\ dpc = "start"
    /\ target_directory = TARGET_DIRECTORY
    /\ target_exists \in BOOLEAN
    /\ target_files \in (IF target_exists THEN SUBSET TargetFileNames ELSE {{}})
    /\ index \in (IF target_files = {<<"intro", ".txt">>}
                  THEN SmallIndexes \cup {BigIndex} ELSE SmallIndexes)
    /\ target_filenames = {}
    /\ all_vector_ids = <<>>
    /\ ids_to_delete = <<>>
    /\ batch_i = 0
    /\ delete_calls = <<>>
    /\ stored0 = DOMAIN index

\* the utility has not been started yet
DeleteWaiting ==
    /\ dpc = "wait" /\ target_directory = <<>> /\ target_exists = FALSE
    /\ target_files = {} /\ target_filenames = {} /\ all_vector_ids = <<>>
    /\ ids_to_delete = <<>> /\ batch_i = 0 /\ delete_calls = <<>> /\ stored0 = {}

\* remove_from_pinecone.py lines 24-26 and 84-85: after the ingestion script has
\* ended, the utility is started with one of the ingested directories as target
D_Begin ==
    /\ UNCHANGED notDelete
    /\ dpc = "wait" /\ ipc = "done" /\ ~IsBig
    /\ \E k \in DOMAIN dirs :
        /\ target_directory' = dirs[k]
        /\ target_files' = DOMAIN listing[k]
    /\ target_exists' = TRUE
    /\ stored0' = DOMAIN index
    /\ dpc' = "start"
    /\ UNCHANGED <<index, target_filenames, all_vector_ids, ids_to_delete, batch_i,
                   delete_calls>>

\* remove_from_pinecone.py lines 34-47
D_Start ==
    /\ UNCHANGED notDelete
    /\ dpc = "start"
    /\ IF ~target_exists
       THEN dpc' = "done" /\ UNCHANGED target_filenames
       ELSE /\ target_filenames' = TxtFiles(target_files)
            /\ dpc' = IF target_filenames' = {} THEN "done" ELSE "list"
    /\ UNCHANGED <<index, target_directory, target_exists, target_files, all_vector_ids,
                   ids_to_delete, batch_i, delete_calls, stored0>>

\* remove_from_pinecone.py lines 50-54
D_List ==
    /\ UNCHANGED notDelete
    /\ dpc = "list"
    /\ all_vector_ids' \in ListOrders(index)
    /\ dpc' = "select"
    /\ UNCHANGED <<index, target_directory, target_exists, target_files, target_filenames,
                   ids_to_delete, batch_i, delete_calls, stored0>>

\* remove_from_pinecone.py lines 57-71
D_Select ==
    /\ UNCHANGED notDelete
    /\ dpc = "select"
    /\ ids_to_delete' = SelectIds(all_vector_ids, target_filenames)
    /\ dpc' = IF ids_to_delete' = <<>> THEN "done" ELSE "delete"
    /\ batch_i' = 0
    /\ UNCHANGED <<index, target_directory, target_exists, target_files, target_filenames,
                   all_vector_ids, delete_calls, stored0>>

\* remove_from_pinecone.py lines 72-79: one iteration of the batch loop; an
\* exception of index.delete is caught and the loop goes on
D_DeleteBatch ==
    /\ UNCHANGED notDelete
    /\ dpc = "delete" /\ batch_i < Len(ids_to_delete)
    /\ LET batch == SubSeq(ids_to_delete, batch_i + 1,
                           Min(batch_i + delete_batch_size, Len(ids_to_delete)))
       IN \E ok \in BOOLEAN :
            /\ delete_calls' = Append(delete_calls, [ids |-> batch, ok |-> ok])
            /\ index' = IF ok THEN Delete(index, batch) ELSE index
    /\ batch_i' = batch_i + delete_batch_size
    /\ UNCHANGED <<dpc, target_directory, target_exists, target_files, target_filenames,
                   all_vector_ids, ids_to_delete, stored0>>

\* remove_from_pinecone.py lines 72 and 81-82: the batch loop is over
D_Finish ==
    /\ UNCHANGED notDelete
    /\ dpc = "delete" /\ batch_i >= Len(ids_to_delete)
    /\ dpc' = "done"
    /\ UNCHANGED <<index, target_directory, target_exists, target_files, target_filenames,
                   all_vector_ids, ids_to_delete, batch_i, delete_calls, stored0>>

DeleteNext == D_Start \/ D_List \/ D_Select \/ D_DeleteBatch \/ D_Finish

\* ingestion first, then the deletion utility on an ingested directory
PipelineNext == (dpc = "wait" /\ IngestNext) \/ D_Begin \/ DeleteNext

----------------------------------------------------------------------------
(* Startup: the module-level code of main.py, ingest_to_pinecone.py and
   ingester-universal.py, and the first lines of main() of the two scripts *)

Programs == {"main", "ingest_to_pinecone", "ingester_universal"}

\* the configuration values read with os.getenv
Required == {"OPENAI_API_KEY", "PINECONE_API_KEY", "PINECONE_INDEX_NAME"}

Present(name) == name \in env

StartIdle ==
    /\ program = "none" /\ env = {} /\ input_exists = FALSE /\ spc = "idle"
    /\ requests = <<>> /\ lenient = {} /\ working = FALSE

\* the program is started in some environment
StartInit ==
    /\ program \in Programs
    /\ env \in SUBSET Required
    /\ input_exists \in (IF program = "ingest_to_pinecone" THEN BOOLEAN ELSE {TRUE})
    /\ spc = "openai"
    /\ requests = <<>>
    /\ lenient = {}
    /\ working = FALSE

\* a client constructor that is given None as key: the SDK raises or returns a
\* client; which, is not in this repository
Construct(client, key, raised, next) ==
    IF Present(key)
    THEN spc' = next /\ UNCHANGED lenient
    ELSE \E raises \in BOOLEAN :
            IF raises THEN spc' = raised /\ UNCHANGED lenient
                      ELSE spc' = next /\ lenient' = lenient \cup {client}

\* main.py lines 17, 28 and 33, ingest_to_pinecone.py line 18: if not value: raise
Checked(name) == Present(name)

\* main.py lines 15-23, ingest_to_pinecone.py lines 16-24: the key is tested and
\* exit() is called without it; ingester-universal.py line 15: no test, and an
\* exception of the constructor ends the process
S_OpenAI ==
    /\ UNCHANGED notStart
    /\ spc = "openai"
    /\ IF program \in {"main", "ingest_to_pinecone"}
       THEN /\ spc' = IF Checked("OPENAI_API_KEY") THEN "pinecone" ELSE "exited"
            /\ UNCHANGED lenient
       ELSE Construct("openai", "OPENAI_API_KEY", "exited", "pinecone")
    /\ UNCHANGED <<program, env, input_exists, requests, working>>

\* main.py lines 26-40: both values are tested, then pc.Index connects, which
\* may ask the service for the host of the index; ingest_to_pinecone.py lines
\* 27-34: no test, an exception of the constructor leads to exit();
\* ingester-universal.py line 16: no test, an exception ends the process
S_Pinecone ==
    /\ UNCHANGED notStart
    /\ spc = "pinecone"
    /\ IF program = "main"
       THEN /\ UNCHANGED lenient
            /\ IF Checked("PINECONE_API_KEY") /\ Checked("PINECONE_INDEX_NAME")
               THEN /\ spc' = "bm25"
                    /\ \E asks \in BOOLEAN :
                        requests' = IF asks THEN Append(requests, "describe_index") ELSE requests
               ELSE spc' = "exited" /\ UNCHANGED requests
       ELSE /\ Construct("pinecone", "PINECONE_API_KEY", "exited", "main")
            /\ UNCHANGED requests
    /\ UNCHANGED <<program, env, input_exists, working>>

\* main.py line 43: BM25Encoder.default() may fetch its parameters
S_Bm25 ==
    /\ UNCHANGED notStart
    /\ spc = "bm25"
    /\ \E asks \in BOOLEAN :
        requests' = IF asks THEN Append(requests, "bm25_params") ELSE requests
    /\ spc' = "serving"
    /\ UNCHANGED <<program, env, input_exists, lenient, working>>

\* main.py lines 47-61 and 114-115: the application takes requests
S_Serve ==
    /\ UNCHANGED notStart
    /\ spc = "serving" /\ ~working
    /\ working' = TRUE
    /\ UNCHANGED <<program, env, input_exists, spc, requests, lenient>>

\* ingest_to_pinecone.py lines 39-45 and 77-79, ingester-universal.py lines
\* 18-20 and 50: INDEX_NAME is read without a test and main() is entered
S_Main ==
    /\ UNCHANGED notStart
    /\ spc = "main"
    /\ spc' = IF program = "ingest_to_pinecone" /\ ~input_exists
              THEN "returned" ELSE "list_indexes"
    /\ UNCHANGED <<program, env, input_exists, requests, lenient, working>>

\* ingest_to_pinecone.py line 82, ingester-universal.py line 51:
\* pc.list_indexes() is a request; INDEX_NAME is looked up in the names
S_ListIndexes ==
    /\ UNCHANGED notStart
    /\ spc = "list_indexes"
    /\ requests' = Append(requests, "list_indexes")
    /\ \E ok \in BOOLEAN, listed \in BOOLEAN :
        spc' = IF ~ok THEN "crashed"
               ELSE IF Present("PINECONE_INDEX_NAME") /\ listed THEN "connect"
               ELSE "create_index"
    /\ UNCHANGED <<program, env, input_exists, lenient, working>>

\* ingest_to_pinecone.py lines 84-97, ingester-universal.py lines 53-58
S_CreateIndex ==
    /\ UNCHANGED notStart
    /\ spc = "create_index"
    /\ requests' = Append(requests, "create_index")
    /\ \E ok \in BOOLEAN : spc' = IF ok THEN "connect" ELSE "crashed"
    /\ UNCHANGED <<program, env, input_exists, lenient, working>>

\* ingest_to_pinecone.py lines 100-105, ingester-universal.py lines 60-73:
\* the loop over the files begins
S_Ingest ==
    /\ UNCHANGED notStart
    /\ spc = "connect"
    /\ spc' = "ingesting"
    /\ working' = TRUE
    /\ UNCHANGED <<program, env, input_exists, requests, lenient>>

StartNext ==
    S_OpenAI \/ S_Pinecone \/ S_Bm25 \/ S_Serve \/ S_Main \/ S_ListIndexes
        \/ S_CreateIndex \/ S_Ingest

----------------------------------------------------------------------------
(* Specifications *)

CrawlSpecInit == CrawlInit /\ IngestIdle /\ AskIdle /\ DeleteIdle /\ StartIdle

CrawlSpec == CrawlSpecInit /\ [][CrawlNext]_vars

CrawlFairSpec == CrawlSpec /\ WF_vars(CrawlNext)

IngestSpecInit == IngestInit /\ CrawlIdle /\ AskIdle /\ DeleteIdle /\ StartIdle

IngestSpec == IngestSpecInit /\ [][IngestNext]_vars

AskSpecInit == AskInit /\ CrawlIdle /\ IngestIdle /\ DeleteIdle /\ StartIdle

AskSpec == AskSpecInit /\ [][AskNext]_vars

DeleteSpecInit == DeleteInit /\ IngestStopped /\ CrawlIdle /\ AskIdle /\ StartIdle

DeleteSpec == DeleteSpecInit /\ [][DeleteNext]_vars

PipelineSpecInit == IngestInit /\ DeleteWaiting /\ CrawlIdle /\ AskIdle /\ StartIdle

PipelineSpec == PipelineSpecInit /\ [][PipelineNext]_vars

StartSpecInit == StartInit /\ CrawlIdle /\ IngestIdle /\ AskIdle /\ DeleteIdle

StartSpec == StartSpecInit /\ [][StartNext]_vars

----------------------------------------------------------------------------
(* Crawl frontier claims *)

\* C1: in every reachable state of a crawl, no URL is both in the visited set
\* and in the pending frontier.
C1_FrontierDisjoint == visited_urls \cap Pending = {}

\* C2: a URL is in the visited set when its fetch is issued, and no URL is
\* fetched more than once.
C2_VisitedBeforeFetchOnce ==
    /\ cpc = "fetch" => (current_url \in visited_urls /\ current_url \notin DOMAIN fetched)
    /\ \A u \in DOMAIN fetched : fetched[u] = 1 /\ u \in visited_urls

\* a second page has been fetched and links to itself
C2_Witness ==
    /\ cpc = "process" /\ page.soup
    /\ fetched[current_url] = 1
    /\ Cardinality(visited_urls) >= 2
    /\ \E l \in page.links : Stripped(l) = current_url

\* C3: when the crawl has ended, every in-domain, non-excluded URL reachable
\* from the seed through links on fetched pages has been visited, and fetched
\* exactly once.  (expected holds the seed and every qualifying link of a page
\* whose links were collected.)
C3_AllReachableVisitedOnce ==
    cpc = "done" =>
        /\ expected \subseteq visited_urls
        /\ \A u \in visited_urls : u \in DOMAIN fetched /\ fetched[u] = 1

\* the crawl loop terminates
CrawlTerminates == <>(cpc = "done")

Count(q, x) == Cardinality({i \in 1..Len(q) : q[i] = x})

\* this step puts s into the frontier
AddedToFrontier(s) ==
    IF script = "universal"
    THEN s \notin urls_to_visit /\ s \in urls_to_visit'
    ELSE Count(urls_to_visit', s) > Count(urls_to_visit, s)

\* C4: a link found on a fetched page is added to the frontier exactly if its
\* domain is the allowed one, its URL is neither visited nor pending, and its
\* path does not end in an excluded extension.  (Read in the code's favour:
\* only pages whose links the loop collects, and e-mail obfuscation links
\* count as excluded.)
C4_EnqueueIff ==
    [][(cpc = "process" /\ LinksCollected) =>
        \A l \in page.links :
            AddedToFrontier(Stripped(l)) <=>
                /\ Qualifies(l)
                /\ Stripped(l) \notin visited_urls
                /\ Stripped(l) \notin Pending]_vars

\* C5: after a fetch that returned a non-200 status or raised a network error
\* the loop goes on: the URL stays visited, no file is written, nothing is
\* enqueued; a URL leaves the frontier only as a visited one, and the loop
\* runs on until the frontier is empty.
C5_FailSoft ==
    /\ [][(cpc = "process" /\ page.outcome \in FetchFailures) =>
            /\ cpc' = "loop"
            /\ visited_urls' = visited_urls
            /\ current_url \in visited_urls'
            /\ files' = files
            /\ urls_to_visit' = urls_to_visit]_vars
    /\ [][\A u \in Pending : u \notin Pending' => u \in visited_urls']_vars
    /\ (cpc = "loop" /\ current_url \in failed) ~> (cpc = "done" /\ Pending = {})

\* a fetch has failed while other URLs were pending, and the loop is back at its head
C5_Witness ==
    /\ cpc = "loop"
    /\ current_url \in failed
    /\ current_url \in visited_urls
    /\ current_url \notin files
    /\ Pending # {}

----------------------------------------------------------------------------
(* Ingestion claims *)

\* the chunk texts of the file that text t comes from
ChunksOfFileOf(t) ==
    LET k == CHOOSE j \in 1..Len(dirs) : dirs[j] = t[1]
    IN  {<<t[1], t[2], j>> : j \in 0..(listing[k][t[2]] - 1)}

\* the texts carried by the upsert calls of this run
UpsertedTexts == {r.text : r \in DOMAIN upserted}

\* C6: when an ingestion run has ended, every record that was accumulated has
\* been passed to exactly one upsert call.
C6_AllFlushedOnce ==
    /\ \A r \in DOMAIN upserted : r \in produced /\ upserted[r] = 1
    /\ ipc = "done" => \A r \in produced : r \in DOMAIN upserted

\* a run has ended in which the last chunk of a file failed to embed after
\* another chunk of that file was embedded
C6_Witness ==
    /\ ipc = "done"
    /\ \E t \in embed_failed :
        /\ \A u \in ChunksOfFileOf(t) : u[3] <= t[3]
        /\ \E r \in produced : r.text \in ChunksOfFileOf(t)

\* C7: every upsert call carries at least one record and at most batch_size.
C7_BatchBounded == \A n \in upsert_sizes : 1 <= n /\ n <= batch_size

\* C8: a chunk whose embedding request failed was requested once and is in no
\* upsert; when the run has ended every other chunk of its file has been
\* requested once and, unless its own request failed, upserted.
C8_FailedChunkDropped ==
    /\ \A t \in DOMAIN embed_calls : embed_calls[t] = 1
    /\ \A t \in embed_failed :
        /\ t \in DOMAIN embed_calls
        /\ t \notin UpsertedTexts
        /\ \A k \in DOMAIN index : run = "first" => index[k] # t
    /\ ipc = "done" =>
        \A t \in embed_failed : \A u \in ChunksOfFileOf(t) \ {t} :
            /\ u \in DOMAIN embed_calls
            /\ u \notin embed_failed => u \in UpsertedTexts

\* a run has ended in which the first chunk of a file failed to embed and a
\* later chunk of that file was upserted
C8_Witness ==
    /\ ipc = "done"
    /\ \E t \in embed_failed :
        /\ t[3] = 0
        /\ \E u \in ChunksOfFileOf(t) : u[3] > 0 /\ u \in UpsertedTexts

\* C9: a second run over the same files attaches every id to the chunk text
\* the first run attached it to, and produces the same set of ids.  (Read in
\* the code's favour: only ids of one file are compared, and the sets of ids
\* only when both runs embedded the same chunks.)
C9_SameIdsSameTexts ==
    run = "second" =>
        /\ \A r1 \in prev_produced : \A r2 \in produced :
            (r1.id = r2.id /\ r1.text[1] = r2.text[1] /\ r1.text[2] = r2.text[2])
                => r1.text = r2.text
        /\ (ipc = "done" /\ {r.text : r \in prev_produced} = {r.text : r \in produced})
                => {r.id : r \in prev_produced} = {r.id : r \in produced}

\* C10: within one run two different (directory, file, chunk index) triples
\* never get the same id.
C10_IdsUnique ==
    \A r1 \in produced : \A r2 \in produced : r1.id = r2.id => r1.text = r2.text

----------------------------------------------------------------------------
(* Query service claims *)

\* the positions in calls of the calls to one API
CallsTo(api) == {i \in DOMAIN calls : calls[i].api = api}

\* the calls that leave the process, in the order they were issued
ExternalCalls == SelectSeq(calls, LAMBDA c : c.api # "encode_queries")

\* the handler is past the compaction step
PastCompaction == apc \notin {"idle", "compact"}

\* C11: history compaction happens exactly when the arriving history has more
\* than 10 turns.  Then exactly one summarization call is made and, when it
\* returns, the history is the summary turn followed by the last 4 original
\* turns in their order (length 5).  With 10 or fewer turns no summarization
\* call is made and the history is unchanged.
C11_CompactionTrigger ==
    /\ apc = "compact" => (CallsTo("chat_summary") = {} /\ history = history0)
    /\ PastCompaction =>
        IF Len(history0) > 10
        THEN /\ Cardinality(CallsTo("chat_summary")) = 1
             /\ calls[1].api = "chat_summary"
             /\ IF calls[1].ok
                THEN /\ Len(history) = 5
                     /\ history[1].role = "system"
                     /\ history[1].content = <<"Summary of conversation so far: ">> \o summary_text
                     /\ \A k \in 1..4 : history[k + 1] = history0[Len(history0) - 4 + k]
                ELSE history = history0 /\ apc = "done"
        ELSE CallsTo("chat_summary") = {} /\ history = history0

\* a request with 11 turns was answered after its history was compacted
C11_Witness ==
    /\ apc = "done" /\ response.status_code = 200
    /\ Len(history0) = 11 /\ Len(history) = 5

\* C12: the messages of every final chat completion are, in this order, the
\* system persona message, the system message wrapping the retrieved context,
\* the (possibly compacted) history turns in their order, and the question as
\* a user message; there are 3 + Len(history) of them.
C12_MessageOrder ==
    \A i \in CallsTo("chat_answer") :
        LET m == calls[i].arg IN
        /\ m = messages
        /\ Len(m) = 3 + Len(history)
        /\ m[1] = Turn("system", system_prompt)
        /\ m[2].role = "system"
        /\ m[2].content = <<"Retrieved Context:\n">> \o context_string
        /\ \A k \in 1..Len(history) : m[2 + k] = history[k]
        /\ m[Len(m)] = Turn("user", question)

\* a final chat completion was issued with a compacted history of 12 turns
C12_Witness ==
    /\ CallsTo("chat_answer") # {}
    /\ Len(history0) = 12 /\ Len(history) = 5

\* C13: the context block in the messages of a final chat completion is never
\* the empty string, and it is the placeholder "No relevant documents found."
\* when the index query returned zero matches.
C13_ContextNeverEmpty ==
    /\ (apc = "complete" \/ CallsTo("chat_answer") # {}) =>
        /\ context_string # <<>>
        /\ query_results = <<>> => context_string = <<"No relevant documents found.">>
    /\ \A i \in CallsTo("chat_answer") :
        /\ calls[i].arg[2].content # <<"Retrieved Context:\n">>
        /\ query_results = <<>> =>
            calls[i].arg[2].content = <<"Retrieved Context:\n", "No relevant documents found.">>

\* the index query returned no match and the final chat completion was issued
C13_Witness ==
    /\ CallsTo("chat_answer") # {}
    /\ query_results = <<>>
    /\ calls[Len(calls) - 1].api = "index_query" /\ calls[Len(calls) - 1].ok

\* C14: whichever step of a request fails (summarization, question embedding,
\* sparse encoding, index query, chat completion), the request ends there and
\* the caller receives status 500 with the same generic detail and no answer.
C14_UniformFailure ==
    \A i \in DOMAIN calls :
        ~calls[i].ok =>
            /\ i = Len(calls)
            /\ apc = "done"
            /\ response = [status_code |-> 500, detail |-> <<"An internal server error occurred.">>]

\* the summarization call of a request failed and the caller has its response
C14_Witness ==
    /\ apc = "done" /\ calls # <<>>
    /\ calls[Len(calls)].api = "chat_summary" /\ ~calls[Len(calls)].ok
    /\ response.status_code = 500

\* C18: the external calls of a request are a prefix of: the summarization call
\* (only if the history has more than 10 turns), the question embedding, the
\* index query, the final chat completion.  Each occurs at most once, every
\* call before the last one succeeded, and nothing follows a failed call.
C18_CallOrder ==
    LET order == (IF Len(history0) > 10 THEN <<"chat_summary">> ELSE <<>>)
                    \o <<"embeddings", "index_query", "chat_answer">>
        ext == ExternalCalls
    IN  /\ Len(ext) <= Len(order)
        /\ \A i \in DOMAIN ext : ext[i].api = order[i]
        /\ \A i \in DOMAIN calls : i < Len(calls) => calls[i].ok
        /\ (calls # <<>> /\ ~calls[Len(calls)].ok) => apc = "done"

\* a request with a long history made all four external calls
C18_Witness ==
    /\ apc = "done" /\ Len(history0) > 10
    /\ Len(ExternalCalls) = 4
    /\ \A i \in DOMAIN calls : calls[i].ok

----------------------------------------------------------------------------
(* Deletion utility claims *)

\* the ids passed to index.delete calls so far
PassedToDelete == UNION {Range(delete_calls[i].ids) : i \in DOMAIN delete_calls}

\* the number of ids passed to index.delete calls so far, repetitions counted
RECURSIVE PassedCount(_)
PassedCount(cs) == IF cs = <<>> THEN 0 ELSE Len(Head(cs).ids) + PassedCount(Tail(cs))

\* the stored ids that begin with the name of a .txt file of the target directory
BeginsWithTarget ==
    {id \in stored0 :
        \E f \in target_files : EndsWith(f, ".txt") /\ Len(f) <= Len(id) /\ SubSeq(id, 1, Len(f)) = f}

\* C15: the ids the deletion utility passes to delete calls are stored ids that
\* begin with one of the .txt file names of the target directory, no id is
\* passed twice, and when the utility ends every such id has been passed.
C15_DeletionSelectivity ==
    /\ PassedToDelete \subseteq BeginsWithTarget
    /\ PassedCount(delete_calls) = Cardinality(PassedToDelete)
    /\ dpc = "done" => PassedToDelete = BeginsWithTarget

\* the utility ended after deleting some of the stored ids and leaving others
C15_Witness ==
    /\ dpc = "done"
    /\ PassedToDelete # {}
    /\ stored0 \ PassedToDelete # {}
    /\ \A i \in DOMAIN delete_calls : delete_calls[i].ok

\* C16: after an ingestion script has ingested the .txt files of a directory
\* and the deletion utility has run on that directory with every delete call
\* succeeding, the index holds no vector created from a file of that directory.
C16_NoVectorLeft ==
    (dpc = "done" /\ \A i \in DOMAIN delete_calls : delete_calls[i].ok) =>
        \A id \in DOMAIN index : index[id][1] # target_directory

----------------------------------------------------------------------------
(* Startup claim *)

\* C17: if a required configuration value (the embedding/chat-service key, the
\* vector-index-service key, the index name) is absent at startup, the process
\* makes no request to an external service, serves no request and ingests no
\* file.  Runs in which an SDK constructor accepted an absent key are left out.
C17_FailFast ==
    (Required \ env # {} /\ lenient = {}) =>
        /\ requests = <<>>
        /\ ~working

====
